---- MODULE Spec2Model ----
(***************************************************************************)
(* State-machine model of the streaming session controller of the YOLOv5   *)
(* PyQt6 detector application (src/gui/main_windows.py, MainWindow), with  *)
(* the parts of the detection engine (src/core/detector.py) and of the     *)
(* control panel (src/gui/ui_components.py) that its handlers read.        *)
(*                                                                         *)
(* All handlers run on the single Qt GUI thread: a handler is dispatched   *)
(* from the event loop and runs to completion.  A button's clicked signal  *)
(* is delivered only while the button is enabled.  The periodic tick       *)
(* (process_video_frame) is split into its three phases (pull, detect,     *)
(* emit) so that the frame in flight is visible in the state; pc records   *)
(* the phase.                                                              *)
(***************************************************************************)
EXTENDS Integers, Sequences, FiniteSets, TLC

\* ---------------------------------------------------------------- bounds
\* Largest number of frames a source yields before its reads return no frame.
MaxFrames == 2
\* Largest number of successful source opens (each creates one output sink).
MaxSessions == 2
\* Largest time, in clock units, the model lets pass within one frame-rate
\* window (longer waits behave like this one).
MaxTime == 1
\* Clock units in the 1.0 second of the frame-rate window (time_diff >= 1.0).
Second == 1

\* Number of weights files there are to load (1 is opt.weights, the default).
MaxWeights == 2
\* Largest frame rate, in frames per second, a source reports (the smallest
\* is -1).
MaxRate == 1
\* Largest width and height, in pixels, of the frames of a source.
MaxDim == 2
\* Rows the model puts out for one image.
MaxCand == 4
\* Height and width of a frame, in pixels.
MaxSide == 6

\* self.out = None, self.weights_path = None, self.model = None
None == 0
\* opt.weights: the default weights file
DefaultWeights == 1
\* opt.conf_thres and opt.iou_thres as parsed from no arguments, in hundredths
DefaultConf == 25
DefaultIou == 45
\* opt.img_size as parsed from no arguments
DefaultImgSize == 640
\* opt.max_det as parsed from no arguments
DefaultMaxDet == 1000
\* create_video_writer: the frame rate used when the source reports none
FallbackFps == 20

VARIABLES
    detector,       \* YOLODetector: [initialized, model, imgsz, names, colors]
    weights_path,   \* MainWindow.weights_path: None or a selected weights file
    opt,            \* YOLODetector.opt: [img_size, conf_thres, iou_thres,
                    \* classes, agnostic_nms, max_det], thresholds in
                    \* hundredths
    pred,           \* the rows the model put out for the image at hand
    det,            \* the detections detect returned for them last
    nms_max_det,    \* the cap non_max_suppression applies when its caller
                    \* passes none
    letterbox_stride, \* the stride letterbox pads to when its caller passes
                    \* none
    prep,           \* tensor preparation: [stride, imgsz] of the loaded
                    \* model, shape of the frame and of its padded tensor
    xyxy,           \* a detection's box: [raw] in pixels of the tensor and
                    \* [box] as detect returns it
    props,          \* what cap.get reports of a source: [fps, width, height]
    img,            \* the array the caller passed to detect: what is drawn
                    \* on it, and its shape <<height, width>>
    result_img,     \* the array detect returned last: what is drawn on it,
                    \* its shape, and the model, names and colours used
    writer,         \* the arguments of the cv2.VideoWriter created last
    cap,            \* cv2.VideoCapture: [opened, src, left]
    out,            \* MainWindow.out: None or the id of the bound output sink
    sinks,          \* number of output sinks created so far (ids 1..sinks)
    released,       \* ids of the output sinks on which release() was called
    timer_video,    \* QTimer.isActive()
    buttons,        \* enablement of the control-panel buttons
    camera_text,    \* text of button_camera
    stop_text,      \* text of button_stop
    display_label,  \* what the display label shows: "text", "image", "frame"
    fps,            \* MainWindow.fps as the fraction <<frames, elapsed>>
    elapsed,        \* time.time() - MainWindow.fps_last_time
    frame_count,    \* MainWindow.frame_count
    pc,             \* phase of process_video_frame: "idle", "detect", "emit"
    frame,          \* the frame in flight (its position in the source), or 0
    pulled,         \* number of frames pulled from the source bound last
    written,        \* frames written to the sink created last, in order
    displayed,      \* frames shown on the display since the last open, in order
    closed,         \* the window received its close event
    lastOp,         \* history: the handler (and branch) that ran last
    prev,           \* history: the session state that handler started in
    paused_since,   \* history: a pause happened, and no resume or stop since
    failed          \* history: the frame whose processing raised last, or 0

vars == <<detector, weights_path, opt, props, pred, det, nms_max_det,
          letterbox_stride, prep, xyxy, img, result_img, writer, cap,
          out, sinks, released, timer_video,
          buttons, camera_text, stop_text, display_label, fps, elapsed,
          frame_count, pc, frame, pulled, written, displayed, closed,
          lastOp, prev, paused_since, failed>>

\* Groups used in UNCHANGED clauses.
postVars == <<pred, det, nms_max_det, letterbox_stride, prep, xyxy>>
optVars  == <<opt, props, postVars>>
detVars  == <<detector, weights_path, optVars>>
capVars  == <<cap, pulled>>
sinkVars == <<out, sinks, writer, released, written>>
uiVars   == <<buttons, camera_text, stop_text, display_label>>
fpsVars  == <<fps, elapsed, frame_count>>
tickVars == <<pc, frame, img, result_img, displayed, failed>>

\* ------------------------------------------------------- session states
IsRunning == timer_video
\* Tick cancelled while the pause/stop controls are still enabled.
IsPaused  == ~timer_video /\ buttons.stop
IsIdle    == ~timer_video /\ ~cap.opened /\ out = None
SessionState ==
    IF IsRunning THEN "Running"
    ELSE IF IsPaused THEN "Paused"
    ELSE IF IsIdle THEN "Idle"
    ELSE "Other"

ClosedCap == [opened |-> FALSE, src |-> "none", left |-> 0]

\* YOLODetector.__init__: nothing loaded, not initialized.
NewDetector == [initialized |-> FALSE, model |-> None, imgsz |-> None,
                names |-> None, colors |-> None]

\* No array returned by detect.
NoImage == [marks |-> {}, shape |-> <<0, 0>>, model |-> None,
            names |-> None, colors |-> None]

\* No array passed to detect.
NoFrame == [marks |-> {}, shape |-> <<0, 0>>]

\* No cv2.VideoWriter created.
NoWriter == [fps |-> 0, width |-> 0, height |-> 0]

\* A source of the usual kind: a frame rate, frames wider than high.
UsualProps == [fps |-> 1, width |-> 2, height |-> 1]

\* get_default_args(): parse_args([]) yields the defaults.
DefaultOpt == [img_size |-> DefaultImgSize, conf_thres |-> DefaultConf, iou_thres |-> DefaultIou,
               classes |-> {}, agnostic_nms |-> FALSE,
               max_det |-> DefaultMaxDet]

\* No model loaded, no frame prepared, no box rescaled.
NoPrep == [stride |-> 0, imgsz |-> 0, frame |-> <<0, 0>>, tensor |-> <<0, 0>>]
NoBox  == [raw |-> <<0, 0, 0, 0>>, box |-> <<0, 0, 0, 0>>]
NoGeometry == letterbox_stride = 32 /\ prep = NoPrep /\ xyxy = NoBox

\* No image has been through the model.
NoPredictions ==
    pred = <<>> /\ det = <<>> /\ nms_max_det = 300 /\ NoGeometry

\* ------------------------------------------------------------ Init
\* MainWindow.__init__ and YOLODetector.__init__, but for the options.
Constructed ==
    /\ detector = NewDetector
    /\ weights_path = None
    /\ img = NoFrame
    /\ result_img = NoImage
    /\ writer = NoWriter
    /\ cap = ClosedCap
    /\ out = None
    /\ sinks = 0
    /\ released = {}
    /\ timer_video = FALSE
    /\ buttons = [weights |-> TRUE, init |-> TRUE, img |-> TRUE,
                  video |-> TRUE, camera |-> TRUE,
                  stop |-> FALSE, finish |-> FALSE]
    /\ camera_text = "Camera Detection"
    /\ stop_text = "Pause"
    /\ display_label = "text"
    /\ fps = <<0, 1>>
    /\ elapsed = 0
    /\ frame_count = 0
    /\ pc = "idle"
    /\ frame = 0
    /\ pulled = 0
    /\ written = <<>>
    /\ displayed = <<>>
    /\ closed = FALSE
    /\ lastOp = "construct"
    /\ prev = "Idle"
    /\ paused_since = FALSE
    /\ failed = 0

\* The application: MainWindow builds its detector from get_default_args().
Init == Constructed /\ opt = DefaultOpt /\ props = UsualProps /\ NoPredictions

\* Mutant of Dispatch: handlers are delivered while a tick is in flight, as
\* if the tick ran off the GUI thread or pumped the event loop.
Dispatch_reentrant == ~closed

\* A handler can be dispatched: the window is open and no handler is running.
Dispatch == ~closed /\ pc = "idle"

\* History bookkeeping of a handler branch.
Op(name) == lastOp' = name /\ prev' = SessionState


AllButtonsIdle == [weights |-> TRUE, init |-> TRUE, img |-> TRUE,
                   video |-> TRUE, camera |-> TRUE,
                   stop |-> FALSE, finish |-> FALSE]

\* Mutant of stop_detection: the output sink is forgotten, neither released
\* nor unbound.
stop_detection_partial ==
    /\ timer_video' = FALSE
    /\ cap' = IF cap.opened THEN ClosedCap ELSE cap
    /\ UNCHANGED <<released, out>>
    /\ display_label' = "text"
    /\ stop_text' = "Pause"
    /\ camera_text' = "Camera Detection"
    /\ buttons' = AllButtonsIdle
    /\ paused_since' = FALSE

\* ----------------------------------------------------- stop_detection
\* MainWindow.stop_detection: cancel the tick, release the capture if it is
\* open, release and unbind the output sink if one is bound, reset the UI.
stop_detection ==
    /\ timer_video' = FALSE
    /\ cap' = IF cap.opened THEN ClosedCap ELSE cap
    /\ IF out # None
         THEN released' = released \cup {out} /\ out' = None
         ELSE UNCHANGED <<released, out>>
    /\ display_label' = "text"
    /\ stop_text' = "Pause"
    /\ camera_text' = "Camera Detection"
    /\ buttons' = AllButtonsIdle
    /\ paused_since' = FALSE

\* What stop_detection leaves alone.
stop_frame == UNCHANGED <<detVars, pulled, sinks, writer, written, fpsVars, pc,
                          frame, img, result_img, displayed, closed,
                          failed>>

\* button_finish.clicked -> stop_detection
stop_click ==
    /\ Dispatch /\ buttons.finish
    /\ stop_detection
    /\ stop_frame
    /\ Op("stop")

\* -------------------------------------------------------- closeEvent
\* MainWindow.closeEvent: stop_detection only when the timer is active.
closeEvent ==
    /\ Dispatch
    /\ IF timer_video
         THEN stop_detection
         ELSE UNCHANGED <<timer_video, cap, released, out, uiVars, paused_since>>
    /\ closed' = TRUE
    /\ UNCHANGED <<detVars, pulled, sinks, writer, written, fpsVars, pc, frame,
                   img, result_img, displayed, failed>>
    /\ Op("close")

\* ------------------------------------------------------ toggle_pause
\* The pause branch: timer active -> stop the timer.
pause ==
    /\ timer_video' = FALSE
    /\ stop_text' = "Resume"
    /\ paused_since' = TRUE
    /\ UNCHANGED <<buttons, camera_text, display_label>>
    /\ Op("pause")

\* The resume branch: timer inactive -> restart it only if the capture is open.
resume ==
    IF cap.opened
      THEN /\ timer_video' = TRUE
           /\ stop_text' = "Pause"
           /\ paused_since' = FALSE
           /\ UNCHANGED <<buttons, camera_text, display_label>>
           /\ Op("resume")
      ELSE /\ UNCHANGED <<timer_video, uiVars, paused_since>>
           /\ Op("resume_noop")

\* button_stop.clicked -> toggle_pause
toggle_pause ==
    /\ Dispatch /\ buttons.stop
    /\ IF timer_video THEN pause ELSE resume
    /\ UNCHANGED <<detVars, capVars, sinkVars, fpsVars, tickVars, closed>>


\* ------------------------------------------------- opening a source
\* cv2.VideoCapture.open: an open capture is released first; on success the
\* handle is open on a source that yields n more frames, on failure it is
\* closed and open() returns False.
cap_open_ok(src, n) ==
    /\ cap' = [opened |-> TRUE, src |-> src, left |-> n]
    /\ pulled' = 0

cap_open_fail ==
    /\ cap' = ClosedCap
    /\ UNCHANGED pulled

\* Mutant of writer_args: a reported rate of 0 is passed on.
writer_args_zero_rate(p) ==
    [fps |-> IF p.fps < 0 THEN FallbackFps ELSE p.fps,
     width |-> p.width, height |-> p.height]

\* create_video_writer: width, height and fps as cap.get reports them, fps
\* replaced by 20 when it is not positive; they are the arguments of
\* cv2.VideoWriter.
writer_args(p) ==
    [fps |-> IF p.fps <= 0 THEN FallbackFps ELSE p.fps,
     width |-> p.width, height |-> p.height]

\* self.out = create_video_writer(self.cap, ...): a new writer, bound over
\* whatever self.out held.
create_video_writer ==
    /\ sinks' = sinks + 1
    /\ out' = sinks + 1
    /\ writer' = writer_args(props)
    /\ written' = <<>>
    /\ UNCHANGED released

\* A new streaming session starts: its display and failure histories are empty.
new_session_history ==
    /\ displayed' = <<>> /\ failed' = 0
    /\ img' = NoFrame /\ result_img' = NoImage

\* Mutant of video_buttons: the image and initialize buttons stay enabled.
video_buttons_setup_on ==
    [buttons EXCEPT !.stop = TRUE, !.finish = TRUE, !.video = FALSE,
                    !.camera = FALSE, !.weights = FALSE]

\* open_video: the buttons while a video is streamed.
video_buttons ==
    [buttons EXCEPT !.stop = TRUE, !.finish = TRUE,
                    !.video = FALSE, !.img = FALSE, !.camera = FALSE,
                    !.init = FALSE, !.weights = FALSE]

\* open_video after a successful cap.open: writer, UI, FPS reset, timer start.
open_video_ok(n) ==
    /\ cap_open_ok("video", n)
    /\ create_video_writer
    /\ display_label' = "text"
    /\ buttons' = video_buttons
    /\ fps' = <<0, 1>>
    /\ elapsed' = 0
    /\ frame_count' = 0
    /\ timer_video' = TRUE
    /\ new_session_history
    /\ UNCHANGED <<detVars, camera_text, stop_text, pc, frame, closed,
                   paused_since>>
    /\ Op("open_video_ok")

\* Mutant of open_video_fail: the return after the warning is missing, so the
\* writer is created and the timer started on a capture that is not open.
open_video_fail_falls_through ==
    /\ cap_open_fail
    /\ create_video_writer
    /\ timer_video' = TRUE
    /\ buttons' = [buttons EXCEPT !.stop = TRUE, !.finish = TRUE,
                     !.video = FALSE, !.img = FALSE, !.camera = FALSE,
                     !.init = FALSE, !.weights = FALSE]
    /\ UNCHANGED <<detVars, camera_text, stop_text, display_label, fpsVars,
                   tickVars, closed, paused_since>>
    /\ Op("open_video_fail")

\* open_video when cap.open returns False: warning, return.
open_video_fail ==
    /\ cap_open_fail
    /\ UNCHANGED <<detVars, sinkVars, timer_video, uiVars, fpsVars,
                   tickVars, closed, paused_since>>
    /\ Op("open_video_fail")

\* The early returns of a handler: nothing but the history changes.
early_return(name) ==
    /\ UNCHANGED <<detVars, capVars, sinkVars, timer_video, uiVars, fpsVars, tickVars, closed, paused_since>>
    /\ Op(name)

\* button_video.clicked -> open_video
open_video ==
    /\ Dispatch /\ buttons.video
    /\ IF ~detector.initialized
         THEN early_return("open_video_uninit")
         ELSE \/ early_return("open_video_cancel")
              \/ open_video_fail
              \/ /\ sinks < MaxSessions
                 /\ \E n \in 0..MaxFrames : open_video_ok(n)

\* toggle_camera after a successful cap.open(0): writer, UI, timer start.
camera_start(n) ==
    /\ cap_open_ok("camera", n)
    /\ create_video_writer
    /\ camera_text' = "Stop Camera"
    /\ buttons' = [buttons EXCEPT !.stop = TRUE, !.finish = TRUE,
                     !.video = FALSE, !.img = FALSE,
                     !.init = FALSE, !.weights = FALSE]
    /\ timer_video' = TRUE
    /\ new_session_history
    /\ UNCHANGED <<detVars, stop_text, display_label, fpsVars, pc, frame,
                   closed, paused_since>>
    /\ Op("camera_ok")

\* toggle_camera when cap.open(0) returns False: warning, return.
camera_fail ==
    /\ cap_open_fail
    /\ UNCHANGED <<detVars, sinkVars, timer_video, uiVars, fpsVars,
                   tickVars, closed, paused_since>>
    /\ Op("camera_fail")

\* toggle_camera with the timer active: stop_detection.
camera_stop ==
    /\ stop_detection
    /\ stop_frame
    /\ Op("camera_stop")

\* button_camera.clicked -> toggle_camera
toggle_camera ==
    /\ Dispatch /\ buttons.camera
    /\ IF ~detector.initialized /\ ~timer_video
         THEN early_return("camera_uninit")
         ELSE IF ~timer_video
           THEN \/ camera_fail
                \/ /\ sinks < MaxSessions
                   /\ \E n \in 0..MaxFrames : camera_start(n)
           ELSE camera_stop


\* ------------------------------------------------ model setup handlers
\* select_weights (button, or the File > Open Weights menu action): the path
\* is set when the dialog returns one.
select_weights ==
    /\ Dispatch
    /\ \/ \E w \in (DefaultWeights + 1)..MaxWeights : weights_path' = w
       \/ UNCHANGED weights_path
    /\ UNCHANGED <<detector, optVars, capVars, sinkVars, timer_video, uiVars,
                   fpsVars, tickVars, closed, paused_since>>
    /\ Op("select_weights")

\* Colour assignments random.randint can draw for the classes of a model: two
\* tell a new draw from the previous one.
Palettes == {1, 2}

\* The places where YOLODetector.initialize can raise, and "ok" when it does
\* not: "load" (select_device or attempt_load), "imgsz" (the stride and
\* check_img_size), "names" (the class names of the loaded model).
InitPoints == {"load", "imgsz", "names", "ok"}

\* weights = weights_path if weights_path else self.opt.weights
weights_of(path) == IF path # None THEN path ELSE DefaultWeights

\* YOLODetector.initialize(weights_path): the fields are assigned one after
\* the other, so a call that raises at `point` leaves those assigned before
\* it updated; initialized is set at the end of the try block and is never
\* cleared.  palette is what random.randint draws for the colours.
initialize(path, point, palette) ==
    LET w == weights_of(path)
        d1 == IF point # "load" THEN [detector EXCEPT !.model = w]
              ELSE detector
        d2 == IF point \in {"names", "ok"} THEN [d1 EXCEPT !.imgsz = w]
              ELSE d1
        d3 == IF point = "ok"
                THEN [d2 EXCEPT !.names = w, !.colors = palette,
                                !.initialized = TRUE]
                ELSE d2
    IN  detector' = d3

\* button_init.clicked -> initialize_model
initialize_model ==
    /\ Dispatch /\ buttons.init
    /\ \E point \in InitPoints, palette \in Palettes :
         /\ initialize(weights_path, point, palette)
         /\ Op(IF point = "ok" THEN "init_ok" ELSE "init_fail")
    /\ UNCHANGED <<weights_path, optVars, capVars, sinkVars, timer_video, uiVars,
                   fpsVars, tickVars, closed, paused_since>>

\* ------------------------------------------------------------ detect
\* An array as cap.read or cv2.imread returns it: nothing drawn on it, of the
\* size the source reports.
new_frame == [marks |-> {}, shape |-> <<props.height, props.width>>]

\* cv2.rotate(frame, cv2.ROTATE_90_COUNTERCLOCKWISE): a new array, height and
\* width exchanged.
rotate(a) == [a EXCEPT !.shape = <<a.shape[2], a.shape[1]>>]

\* Mutant of orient: frames wider than high are the ones rotated.
orient_landscape(a) == IF a.shape[1] < a.shape[2] THEN rotate(a) ELSE a

\* process_video_frame: height, width = frame.shape[:2]; a frame higher than
\* wide is rotated.
orient(a) == IF a.shape[1] > a.shape[2] THEN rotate(a) ELSE a

\* Mutant of detect_outcome: the initialized test is missing.
detect_outcome_unguarded(ok) == IF ok THEN "ok" ELSE "error"

\* How a call of YOLODetector.detect ends.  It raises RuntimeError first of
\* all when the detector is not initialized; otherwise it returns ("ok") or
\* raises from inference or its post-processing ("error", when ~ok).
detect_outcome(ok) ==
    IF ~detector.initialized THEN "NotInitialized"
    ELSE IF ok THEN "ok" ELSE "error"

\* Mutant of detect_arg: the boxes are drawn on the array passed in.
detect_arg_in_place(arg) == [arg EXCEPT !.marks = @ \cup {"boxes"}]

\* What is drawn on the caller's array after detect(arg) returned: detect only
\* reads it (img.copy(), and preprocess_image builds new arrays from it).
detect_arg(arg) == arg

\* The array detect(arg) returns: original_img, the copy of arg with the boxes
\* and labels drawn on it by plot_one_box in the colours of the classes.
detect_result(arg) ==
    [marks |-> arg.marks \cup {"boxes"}, shape |-> arg.shape,
     model |-> detector.model,
     names |-> detector.names, colors |-> detector.colors]

\* Mutant of detect_engine: each call draws new colours for the classes.
detect_engine_recolors ==
    [detector EXCEPT !.colors = IF @ = 1 THEN 2 ELSE 1]

\* The detector after a detect call: detect assigns no field of self.
detect_engine == detector

\* process_video_frame: the FPS text is drawn on result_img.
draw_fps(res) == [res EXCEPT !.marks = @ \cup {"fps"}]

\* Mutant of detect_image: the image handler clears the frame counter.
detect_image_clears_count ==
    /\ Dispatch /\ buttons.img /\ detector.initialized
    /\ img' = detect_arg(new_frame)
    /\ result_img' = detect_result(new_frame)
    /\ frame_count' = 0
    /\ display_label' = "image"
    /\ UNCHANGED <<detVars, capVars, sinkVars, timer_video, buttons,
                   camera_text, stop_text, fps, elapsed, pc, frame,
                   displayed, failed, closed, paused_since>>
    /\ Op("detect_image_ok")

\* button_img.clicked -> detect_image
detect_image ==
    /\ Dispatch /\ buttons.img
    /\ IF ~detector.initialized
         THEN early_return("detect_image_uninit")
         ELSE \/ early_return("detect_image_cancel")
              \/ early_return("detect_image_error")
              \/ /\ detect_outcome(TRUE) = "ok"
                 /\ img' = detect_arg(new_frame)
                 /\ result_img' = detect_result(new_frame)
                 /\ detector' = detect_engine
                 /\ display_label' = "image"
                 /\ UNCHANGED <<weights_path, optVars, capVars, sinkVars,
                                timer_video, buttons, camera_text, stop_text,
                                fpsVars, pc, frame, displayed, failed, closed,
                                paused_since>>
                 /\ Op("detect_image_ok")

\* A client of the engine calls YOLODetector.detect(img) directly, whatever
\* the detector's state.
engine_detect ==
    /\ Dispatch
    /\ \E ok \in BOOLEAN :
         LET o == detect_outcome(ok)
         IN  /\ img' = IF o = "ok" THEN detect_arg(new_frame) ELSE NoFrame
             /\ result_img' = IF o = "ok" THEN detect_result(new_frame)
                              ELSE NoImage
             /\ detector' = IF o = "NotInitialized" THEN detector
                            ELSE detect_engine
             /\ Op(CASE o = "ok" -> "call_ok"
                    [] o = "error" -> "call_error"
                    [] OTHER -> "call_NotInitialized")
    /\ UNCHANGED <<weights_path, optVars, capVars, sinkVars, timer_video, uiVars,
                   fpsVars, pc, frame, displayed, failed, closed,
                   paused_since>>

\* ------------------------------------------------- process_video_frame
\* Frame-rate accounting at the head of the tick.
fps_account ==
    LET count == frame_count + 1
        time_diff == elapsed
    IN  IF time_diff >= Second
          THEN /\ fps' = <<count, time_diff>>
               /\ elapsed' = 0
               /\ frame_count' = 0
          ELSE /\ frame_count' = count
               /\ UNCHANGED <<fps, elapsed>>

\* ret, frame = self.cap.read(): the next frame of an open source that has one.
read_ok == cap.opened /\ cap.left > 0

\* Mutant of tick_eos: only the timer is stopped when the read fails.
tick_eos_timer_only ==
    /\ timer_video' = FALSE
    /\ UNCHANGED <<cap, out, released, uiVars, paused_since>>
    /\ UNCHANGED <<pulled, sinks, writer, written, pc, frame, img, result_img,
                   displayed, failed>>
    /\ Op("tick_eos")

\* No frame: stop_detection and return.
tick_eos ==
    /\ stop_detection
    /\ UNCHANGED <<pulled, sinks, writer, written, pc, frame, img, result_img,
                   displayed, failed>>
    /\ Op("tick_eos")

\* A frame: it is now in flight.
tick_frame ==
    /\ cap' = [cap EXCEPT !.left = @ - 1]
    /\ pulled' = pulled + 1
    /\ frame' = pulled + 1
    /\ img' = new_frame
    /\ result_img' = NoImage
    /\ pc' = "detect"
    /\ UNCHANGED <<sinkVars, timer_video, uiVars, displayed, failed,
                   paused_since>>
    /\ Op("tick_pull")

\* timer_video.timeout -> process_video_frame, up to the read.
TickPull ==
    /\ ~closed /\ timer_video /\ pc = "idle"
    /\ fps_account
    /\ IF read_ok THEN tick_frame ELSE tick_eos
    /\ UNCHANGED <<detVars, closed>>

\* What no phase after the read touches: the session's resources and timer.
tick_keeps == UNCHANGED <<weights_path, optVars, capVars, out, sinks, writer,
                          released,
                          timer_video, buttons, camera_text, stop_text,
                          fpsVars, closed, paused_since>>

\* The locals of the handler are dropped when it returns.
drop_frame == frame' = 0 /\ img' = NoFrame /\ result_img' = NoImage

\* Mutant of frame_failed: the except branch ends the stream by stopping the
\* timer.
frame_failed_stops(name) ==
    /\ pc' = "idle"
    /\ failed' = frame
    /\ drop_frame
    /\ timer_video' = FALSE
    /\ UNCHANGED <<detVars, capVars, out, sinks, writer, released, buttons,
                   camera_text, stop_text, fpsVars, closed, paused_since>>
    /\ Op(name)

\* The except branch: the error is printed and the handler returns.
frame_failed(name) ==
    /\ pc' = "idle"
    /\ failed' = frame
    /\ drop_frame
    /\ UNCHANGED detector
    /\ tick_keeps
    /\ Op(name)

\* process_video_frame: rotation, self.detector.detect(frame) and the FPS
\* overlay.
TickDetect ==
    /\ pc = "detect"
    /\ \E ok \in BOOLEAN :
         IF detect_outcome(ok) = "ok"
           THEN /\ pc' = "emit"
                /\ img' = detect_arg(orient(img))
                /\ result_img' = draw_fps(detect_result(orient(img)))
                /\ detector' = detect_engine
                /\ UNCHANGED <<frame, failed>>
                /\ tick_keeps
                /\ Op("detect_ok")
           ELSE frame_failed("detect_fail")
    /\ UNCHANGED <<written, displayed, display_label>>

\* Mutant of sink_write: the annotated frame is written twice.
sink_write_twice ==
    written' = IF out # None THEN Append(Append(written, frame), frame)
               ELSE written

\* if self.out is not None: self.out.write(result_img)
sink_write == written' = IF out # None THEN Append(written, frame) ELSE written

\* process_video_frame: sink write and display.
TickEmit ==
    /\ pc = "emit"
    /\ \/ /\ frame_failed("emit_fail")
          /\ UNCHANGED <<written, displayed, display_label>>
       \/ /\ sink_write
          /\ frame_failed("display_fail")
          /\ UNCHANGED <<displayed, display_label>>
       \/ /\ sink_write
          /\ displayed' = Append(displayed, frame)
          /\ display_label' = "frame"
          /\ pc' = "idle"
          /\ drop_frame
          /\ UNCHANGED <<detector, failed>>
          /\ tick_keeps
          /\ Op("emit_ok")

Tick == TickPull \/ TickDetect \/ TickEmit

\* ------------------------------------------------------ post-processing
Min(a, b) == IF a <= b THEN a ELSE b
Max(a, b) == IF a >= b THEN a ELSE b

\* A row of the model's output: a box by centre and size in pixels of the
\* padded tensor, an objectness and one score per class, both in tenths.
Row(xc, yc, w, h, obj, scores) ==
    [xc |-> xc, yc |-> yc, w |-> w, h |-> h, obj |-> obj, scores |-> scores]

\* The rows an image is made of here. Rows 1 to 4 are boxes of class 1 that
\* overlap in a chain, row 5 overlaps row 1 by nine tenths and ties with row 4
\* in confidence, row 6 is the box of row 2 in class 2, row 7 is a faint box
\* away from the others.
Rows ==
    << Row( 7, 10, 14, 20, 10, <<9, 1>>),
       Row( 9, 10, 10, 20, 10, <<8, 2>>),
       Row( 8, 10,  8, 20, 10, <<7, 0>>),
       Row(10, 10,  8, 20, 10, <<6, 3>>),
       Row( 7,  9, 14, 18, 10, <<6, 0>>),
       Row( 9, 10, 10, 20, 10, <<2, 8>>),
       Row(35, 10, 10, 20,  5, <<4, 1>>) >>

\* The highest class score of a row and the class that has it.
max_score(row) ==
    LET S == {row.scores[c] : c \in DOMAIN row.scores}
    IN  CHOOSE m \in S : \A x \in S : x <= m

best_class(row) ==
    CHOOSE c \in DOMAIN row.scores :
        /\ row.scores[c] = max_score(row)
        /\ \A d \in DOMAIN row.scores :
               row.scores[d] = max_score(row) => c <= d

\* Confidence of a row, in hundredths: objectness times best class score.
confidence(row) == row.obj * max_score(row)

\* Centre and size to corners <<x1, y1, x2, y2>>.
xywh2xyxy(row) ==
    << row.xc - row.w \div 2, row.yc - row.h \div 2,
       row.xc + row.w \div 2, row.yc + row.h \div 2 >>

candidate(row) ==
    [box |-> xywh2xyxy(row), cls |-> best_class(row), conf |-> confidence(row)]

box_area(b) == (b[3] - b[1]) * (b[4] - b[2])

box_inter(a, b) ==
    LET w == Min(a[3], b[3]) - Max(a[1], b[1])
        h == Min(a[4], b[4]) - Max(a[2], b[2])
    IN  IF w > 0 /\ h > 0 THEN w * h ELSE 0

\* IoU of two boxes above a threshold given in hundredths.
iou_above(a, b, thres) ==
    box_inter(a, b) * 100 >
        thres * (box_area(a) + box_area(b) - box_inter(a, b))

\* A kept box suppresses a candidate: classes are told apart unless the
\* mode is class-agnostic.
suppresses(k, c, thres, agnostic) ==
    /\ agnostic \/ k.cls = c.cls
    /\ iou_above(k.box, c.box, thres)

\* Candidates in descending confidence, equal confidences in input order.
RECURSIVE sort_desc(_)
sort_desc(s) ==
    IF s = <<>> THEN <<>>
    ELSE LET n    == Len(s)
             done == sort_desc(SubSeq(s, 1, n - 1))
             k    == Cardinality({i \in 1..(n - 1) : done[i].conf >= s[n].conf})
         IN  SubSeq(done, 1, k) \o <<s[n]>> \o SubSeq(done, k + 1, n - 1)

\* Greedy suppression over sorted candidates.
RECURSIVE greedy(_, _, _, _)
greedy(cands, kept, thres, agnostic) ==
    IF cands = <<>> THEN kept
    ELSE LET c == Head(cands)
         IN  greedy(Tail(cands),
                    IF \E i \in 1..Len(kept) :
                           suppresses(kept[i], c, thres, agnostic)
                      THEN kept
                      ELSE Append(kept, c),
                    thres, agnostic)

\* The detections that survive suppression, before the cap.
nms_kept(rows, conf_thres, iou_thres, classes, agnostic) ==
    LET Confident(r) == confidence(r) >= conf_thres
        passed       == SelectSeq(rows, Confident)
        cands        == [i \in 1..Len(passed) |-> candidate(passed[i])]
        Wanted(c)    == classes = {} \/ c.cls \in classes
    IN  greedy(sort_desc(SelectSeq(cands, Wanted)), <<>>, iou_thres, agnostic)

non_max_suppression(rows, conf_thres, iou_thres, classes, agnostic, max_det) ==
    LET kept == nms_kept(rows, conf_thres, iou_thres, classes, agnostic)
    IN  SubSeq(kept, 1, Min(Len(kept), max_det))

\* Mutant of detect_nms: the call passes the two thresholds in each other's
\* place.
detect_nms_swapped(rows, o) ==
    non_max_suppression(rows, o.iou_thres, o.conf_thres, o.classes,
                        o.agnostic_nms, nms_max_det)

\* Mutant of detect_nms: the call asks for class-agnostic suppression.
detect_nms_agnostic(rows, o) ==
    non_max_suppression(rows, o.conf_thres, o.iou_thres, o.classes,
                        TRUE, nms_max_det)

\* detect: the call of non_max_suppression, with thresholds, class filter
\* and mode from the options and no cap.
detect_nms(rows, o) ==
    non_max_suppression(rows, o.conf_thres, o.iou_thres, o.classes,
                        o.agnostic_nms, nms_max_det)

\* Mutant of detect_returned: detect returns the detections in the order it
\* draws them in, the last one first.
detect_returned_reversed(d) == [i \in 1..Len(d) |-> d[Len(d) + 1 - i]]

\* detect returns the detections in the order suppression left them in.
detect_returned(d) == d

\* Detections as rows again: objectness 1, the whole score on one class.
as_rows(d) ==
    [i \in 1..Len(d) |->
        Row((d[i].box[1] + d[i].box[3]) \div 2,
            (d[i].box[2] + d[i].box[4]) \div 2,
            d[i].box[3] - d[i].box[1], d[i].box[4] - d[i].box[2], 10,
            [c \in 1..2 |-> IF c = d[i].cls THEN d[i].conf \div 10 ELSE 0])]

\* What the post-processing steps leave alone.
post_keeps ==
    UNCHANGED <<detector, weights_path, props, nms_max_det, letterbox_stride,
                prep, xyxy, img, result_img,
                writer, cap, out, sinks, released, timer_video, buttons,
                camera_text, stop_text, display_label, fps, elapsed,
                frame_count, pc, frame, pulled, written, displayed, closed,
                prev, paused_since, failed>>

\* The first pass over the rows of an image.
postprocess ==
    /\ lastOp = "construct"
    /\ det' = detect_returned(detect_nms(pred, opt))
    /\ lastOp' = "nms"
    /\ UNCHANGED <<opt, pred>>
    /\ post_keeps

\* Thresholds an engine is set up with.
ConfValues == {DefaultConf, 65}
IouValues  == {DefaultIou, 60, 75}

\* The same rows again with a higher IoU threshold.
raise_iou_thres ==
    /\ lastOp \in {"nms", "nms_iou"}
    /\ \E t \in IouValues :
         /\ t > opt.iou_thres
         /\ opt' = [opt EXCEPT !.iou_thres = t]
    /\ det' = detect_returned(detect_nms(pred, opt'))
    /\ lastOp' = "nms_iou"
    /\ UNCHANGED pred
    /\ post_keeps

\* The same rows again with a higher confidence threshold.
raise_conf_thres ==
    /\ lastOp \in {"nms", "nms_conf"}
    /\ \E t \in ConfValues :
         /\ t > opt.conf_thres
         /\ opt' = [opt EXCEPT !.conf_thres = t]
    /\ det' = detect_returned(detect_nms(pred, opt'))
    /\ lastOp' = "nms_conf"
    /\ UNCHANGED pred
    /\ post_keeps

\* The detections returned go through the same steps once more.
postprocess_again ==
    /\ lastOp \in {"nms", "nms_iou", "nms_conf"}
    /\ pred' = as_rows(det)
    /\ det' = detect_returned(detect_nms(pred', opt))
    /\ lastOp' = "nms_again"
    /\ UNCHANGED opt
    /\ post_keeps

\* ------------------------------------------------------------ geometry
\* Strides of the models that can be loaded, and inference sizes an engine is
\* set up with, in pixels of a small scale.
Strides  == {2, 4}
ImgSizes == {4, 6}

\* The smallest multiple of s that is no less than n.
make_divisible(n, s) == ((n + s - 1) \div s) * s

\* The inference size, rounded to the stride of the model.
check_img_size(img_size, s) == make_divisible(img_size, s)

\* n / d rounded to the nearest integer, halves to the even one, n >= 0.
round_half_even(n, d) ==
    LET q == n \div d
        r == n % d
    IN  IF 2 * r < d THEN q
        ELSE IF 2 * r > d THEN q + 1
        ELSE IF q % 2 = 0 THEN q ELSE q + 1

\* Shape <<height, width>> of the padded tensor made of a frame: the frame is
\* scaled by r = min(new_shape / height, new_shape / width), by 1 at most, and
\* each side is padded to the next multiple of stride.
letterbox(shape, new_shape, stride) ==
    LET m      == Max(shape[1], shape[2])
        side(d) == IF m <= new_shape THEN d
                   ELSE round_half_even(d * new_shape, m)
    IN  << make_divisible(side(shape[1]), stride),
           make_divisible(side(shape[2]), stride) >>

\* Sides <<height, width>> of the frame after scaling, before padding.
scaled_shape(shape, new_shape) == letterbox(shape, new_shape, 1)

\* preprocess_image: letterbox is called with the frame and the inference
\* size only, so it pads to the stride it has by default.
preprocess_image_shape(shape) == letterbox(shape, prep.imgsz, letterbox_stride)

\* A box of the padded tensor in pixels of the frame: the padding is taken
\* off, the scaling undone, and the coordinates are clamped into the frame,
\* below its width and height.  The coordinates are fractions num[i] / den.
scale_boxes(img1_shape, box, img0_shape) ==
    LET h1  == img1_shape[1]
        w1  == img1_shape[2]
        h0  == img0_shape[1]
        w0  == img0_shape[2]
        byH == h1 * w0 <= w1 * h0
        gn  == IF byH THEN h1 ELSE w1
        gd  == IF byH THEN h0 ELSE w0
        den == 20 * gn
        X(x) == 10 * (2 * gd * x - w1 * gd + w0 * gn)
        Y(y) == 10 * (2 * gd * y - h1 * gd + h0 * gn)
        clip(n, size) == Max(0, Min(n, size * den - 1))
    IN  [num |-> << clip(X(box[1]), w0), clip(Y(box[2]), h0),
                    clip(X(box[3]), w0), clip(Y(box[4]), h0) >>,
         den |-> den]

\* detect: det[:, :4] = scale_boxes(tensor shape, det[:, :4], frame shape)
\* and then round().
detect_boxes(box, tensor, shape) ==
    LET b == scale_boxes(tensor, box, shape)
    IN  [i \in 1..4 |-> round_half_even(b.num[i], b.den)]

\* What the steps on geometry leave alone.
geom_keeps ==
    UNCHANGED <<detector, weights_path, opt, props, pred, det, nms_max_det,
                letterbox_stride, img, result_img,
                writer, cap, out, sinks, released, timer_video, buttons,
                camera_text, stop_text, display_label, fps, elapsed,
                frame_count, pc, frame, pulled, written, displayed, closed,
                prev, paused_since, failed>>

\* initialize: the stride of the loaded model and the inference size.
initialize_imgsz ==
    /\ \E s \in Strides :
         prep' = [NoPrep EXCEPT !.stride = s,
                                !.imgsz = check_img_size(opt.img_size, s)]
    /\ xyxy' = NoBox
    /\ lastOp' = "imgsz"
    /\ geom_keeps

\* preprocess_image on a frame of any size up to MaxSide.
preprocess_image ==
    /\ prep.stride # 0
    /\ \E h \in 1..MaxSide, w \in 1..MaxSide :
         prep' = [prep EXCEPT !.frame = <<h, w>>,
                              !.tensor = preprocess_image_shape(<<h, w>>)]
    /\ xyxy' = NoBox
    /\ lastOp' = "preprocess"
    /\ geom_keeps

\* Coordinates a box of the model can have along a side of the tensor, some
\* of them outside it.
Coords(d) == {-1, 1, d - 1, d + 1}

\* detect: a box that survived suppression is put in pixels of the frame.
rescale_box ==
    /\ lastOp = "preprocess"
    /\ \E x1, x2 \in Coords(prep.tensor[2]), y1, y2 \in Coords(prep.tensor[1]) :
         /\ x1 <= x2 /\ y1 <= y2
         /\ xyxy' = [raw |-> <<x1, y1, x2, y2>>,
                     box |-> detect_boxes(<<x1, y1, x2, y2>>, prep.tensor,
                                          prep.frame)]
    /\ lastOp' = "rescale"
    /\ UNCHANGED prep
    /\ geom_keeps

\* ------------------------------------------------------------- clock
\* Wall-clock time passes.
Tock ==
    /\ ~closed /\ elapsed < MaxTime
    /\ elapsed' = elapsed + 1
    /\ lastOp' = "tock"
    /\ UNCHANGED <<detVars, capVars, sinkVars, timer_video, uiVars, fps,
                   frame_count, tickVars, closed, prev, paused_since>>

\* ------------------------------------------------------ specification
\* Session control.  The clock stands still: it feeds only the frame-rate
\* accumulators, which no handler reads to decide anything.
Next ==
    \/ initialize_model
    \/ detect_image
    \/ open_video
    \/ toggle_camera
    \/ toggle_pause
    \/ stop_click
    \/ closeEvent
    \/ TickPull
    \/ TickDetect
    \/ TickEmit

Spec == Init /\ [][Next]_vars

\* The Qt timer fires again and again while it is active, and a tick that has
\* started runs to its end.
LiveSpec == Spec /\ SF_vars(Tick)

\* Session control with the wall clock running.
ClockNext == Next \/ Tock

ClockSpec == Init /\ [][ClockNext]_vars

\* Session control, and clients that call the engine directly.
CallNext == Next \/ engine_detect

CallSpec == Init /\ [][CallNext]_vars

\* The engine on its own: any options, any weights file, and detect called
\* from the image handler or directly.
Thresholds == {-1, DefaultConf, DefaultIou, 101}

EngineInit ==
    /\ Constructed
    /\ opt \in [img_size : {DefaultImgSize},
                conf_thres : Thresholds, iou_thres : Thresholds,
                classes : {{}}, agnostic_nms : {FALSE},
                max_det : {DefaultMaxDet}]
    /\ props = UsualProps
    /\ NoPredictions

EngineNext ==
    \/ select_weights
    \/ initialize_model
    \/ detect_image
    \/ engine_detect

EngineSpec == EngineInit /\ [][EngineNext]_vars

\* Streaming from sources of any reported frame rate and frame size.
Sources == [fps : -1..MaxRate, width : 1..MaxDim, height : 1..MaxDim]

SourceInit ==
    Constructed /\ opt = DefaultOpt /\ props \in Sources /\ NoPredictions

SourceNext ==
    \/ initialize_model
    \/ open_video
    \/ toggle_camera
    \/ stop_click
    \/ TickPull
    \/ TickDetect
    \/ TickEmit

SourceSpec == SourceInit /\ [][SourceNext]_vars

\* Post-processing on its own: any rows up to MaxCand of them, in the order
\* of Rows or the reverse, any thresholds, class filter, mode and caps.
RECURSIVE in_order(_, _)
in_order(S, up) ==
    IF S = {} THEN <<>>
    ELSE LET m == CHOOSE i \in S : \A j \in S : IF up THEN i <= j ELSE i >= j
         IN  <<Rows[m]>> \o in_order(S \ {m}, up)

Images ==
    {in_order(S, up) : S \in {T \in SUBSET DOMAIN Rows : Cardinality(T) <= MaxCand},
                       up \in BOOLEAN}

PostInit ==
    /\ Constructed
    /\ props = UsualProps
    /\ opt \in [img_size : {DefaultImgSize},
                conf_thres : ConfValues, iou_thres : IouValues,
                classes : {{}, {1}}, agnostic_nms : BOOLEAN,
                max_det : {1, DefaultMaxDet}]
    /\ pred \in Images
    /\ det = <<>>
    /\ nms_max_det \in {2, 300}
    /\ NoGeometry

PostNext ==
    \/ postprocess
    \/ raise_iou_thres
    \/ raise_conf_thres
    \/ postprocess_again

PostSpec == PostInit /\ [][PostNext]_vars


\* Tensor preparation and box rescaling on their own: any model stride, any
\* inference size, any stride letterbox pads to by default, frames of any
\* size up to MaxSide.
GeomInit ==
    /\ Constructed
    /\ props = UsualProps
    /\ opt \in {[DefaultOpt EXCEPT !.img_size = n] : n \in ImgSizes}
    /\ pred = <<>> /\ det = <<>> /\ nms_max_det = 300
    /\ letterbox_stride \in Strides
    /\ prep = NoPrep
    /\ xyxy = NoBox

GeomNext ==
    \/ initialize_imgsz
    \/ preprocess_image
    \/ rescale_box

GeomSpec == GeomInit /\ [][GeomNext]_vars



\* ================================================================ claims
TickFailOps == {"detect_fail", "emit_fail", "display_fail"}
OpenFailOps == {"open_video_fail", "camera_fail"}
OpenOkOps   == {"open_video_ok", "camera_ok"}

\* C1: the stop event, from any state in which it can be delivered (Running or
\* Paused), leaves the session Idle: the tick is cancelled, the capture is
\* not open, and the sink that was bound is released and unbound.
C1_StopLeavesIdle ==
    [][lastOp' = "stop" =>
         /\ ~timer_video'
         /\ ~cap'.opened
         /\ out' = None
         /\ (out # None => out \in released')
         /\ IsIdle']_vars

\* C1 witness: a stop delivered in a Paused session with a bound sink.
C1_Witness ==
    /\ lastOp = "stop" /\ prev = "Paused"
    /\ IsIdle /\ sinks \in released

\* C2: after the window's close event the capture is not open and no sink is
\* bound, whatever state the session was in.
C2_CloseReleasesAll ==
    lastOp = "close" => (~cap.opened /\ out = None)

\* C3: a tick whose read yields no frame does the stop transition and neither
\* detects nor writes; and, ticks being scheduled fairly, every running
\* session ends Idle (capture and sink released) unless it is paused and left
\* paused for ever.
C3_EndOfStream ==
    /\ [][lastOp' = "tick_eos" =>
            /\ IsIdle'
            /\ (out # None => out \in released')
            /\ pc' = "idle" /\ frame' = 0
            /\ written' = written /\ displayed' = displayed]_vars
    /\ (timer_video ~> (IsIdle \/ [](paused_since /\ ~timer_video)))

\* C3 witness: a source ran out after yielding frames, and the session is Idle
\* with its sink released, no stop event having been delivered.
C3_Witness ==
    /\ lastOp = "tick_eos" /\ prev = "Running"
    /\ pulled > 0 /\ IsIdle /\ sinks \in released

\* C4: a pause cancels the tick and leaves capture and sink as they are; and
\* from a pause until the next resume (or the stop that ends the session) no
\* frame is pulled and none is written to the recording sink or the display.
C4_PauseHoldsFrames ==
    /\ [][lastOp' = "pause" =>
            ~timer_video' /\ cap' = cap /\ out' = out /\ cap'.opened]_vars
    /\ [][paused_since =>
            /\ pulled' <= pulled
            /\ Len(written') <= Len(written)
            /\ Len(displayed') <= Len(displayed)]_vars

\* C5: in every Paused state the resume event reschedules the tick.
C5_ResumeRuns ==
    [][(IsPaused /\ lastOp' \in {"resume", "resume_noop"}) => timer_video']_vars

\* C6: after every successful open, of a video file or of the camera, the
\* capture is open, a sink is bound, the tick is scheduled and the frame-rate
\* accumulators are fresh.
C6_OpenStartsFresh ==
    lastOp \in OpenOkOps =>
        /\ cap.opened /\ out # None /\ timer_video
        /\ fps = <<0, 1>> /\ frame_count = 0 /\ elapsed = 0

\* C7: a failed open creates no sink, leaves no capture open, schedules no
\* tick and changes no button; an Idle session stays Idle.
C7_FailedOpenStaysIdle ==
    [][lastOp' \in OpenFailOps =>
         /\ ~cap'.opened
         /\ ~timer_video'
         /\ out' = out /\ sinks' = sinks
         /\ buttons' = buttons
         /\ (IsIdle => IsIdle')]_vars

\* C7 witness: an open failed in an Idle session.
C7_Witness ==
    /\ lastOp \in OpenFailOps /\ prev = "Idle"
    /\ IsIdle /\ detector.initialized

\* C8: while a frame is in flight the tick is still scheduled, the capture is
\* open on the source the frame came from, the sink is bound and unreleased,
\* and the window is open: no other handler ran since the frame was pulled.
C8_TickRunsToCompletion ==
    pc # "idle" =>
        /\ timer_video /\ ~closed
        /\ cap.opened
        /\ out # None /\ out \notin released
        /\ frame > 0 /\ frame = pulled
        /\ lastOp \in {"tick_pull", "detect_ok"}

\* C8 witness: a detected frame is about to be written.
C8_Witness == pc = "emit" /\ frame = 2

\* A sequence of frame positions is strictly increasing.
Increasing(q) == \A i, j \in 1..Len(q) : i < j => q[i] < q[j]

\* C9: the frames written to the recording sink, and those shown on the
\* display, are frames pulled from the source, in pull order, none twice.
C9_WrittenInPullOrder ==
    /\ Increasing(written) /\ Increasing(displayed)
    /\ \A i \in 1..Len(written) : written[i] \in 1..pulled
    /\ \A i \in 1..Len(displayed) : displayed[i] \in 1..pulled

\* C9 witness: a first frame was written but failed to display, and a second
\* frame has just been written and shown.
C9_Witness ==
    /\ written = <<1, 2>> /\ displayed = <<2>>
    /\ lastOp = "emit_ok"

\* C10: a frame whose processing raises leaves the tick scheduled and the
\* capture and sink bound; the next pull yields a later frame; and a stop
\* after it still releases both.
C10_FrameFailureContinues ==
    /\ [][lastOp' \in TickFailOps =>
            /\ timer_video' /\ pc' = "idle"
            /\ cap' = cap /\ cap'.opened
            /\ out' = out /\ out' # None /\ out' \notin released'
            /\ failed' = frame]_vars
    /\ [][lastOp' = "tick_pull" => frame' > failed]_vars
    /\ [][(failed # 0 /\ lastOp' = "stop") =>
            IsIdle' /\ (out # None => out \in released')]_vars

\* C10 witness: a frame failed, the next frame was pulled, and the session
\* was then stopped.
C10_Witness ==
    /\ failed = 1 /\ pulled = 2
    /\ lastOp = "stop" /\ IsIdle /\ sinks \in released

DetectCallOps == {"call_ok", "call_error", "call_NotInitialized"}

\* C11: while the detector is not initialized, a detect call raises
\* NotInitialized without running inference (it returns no image and leaves
\* the detector as it was), and the controller starts neither a streaming
\* session nor a single-image detection: no capture is open, no sink was
\* created, no tick is scheduled, no detection result exists.
C11_UninitializedRejected ==
    /\ [](~detector.initialized =>
            /\ IsIdle /\ ~timer_video /\ ~cap.opened
            /\ out = None /\ sinks = 0 /\ pulled = 0
            /\ pc = "idle" /\ result_img = NoImage
            /\ display_label = "text")
    /\ [][(~detector.initialized /\ lastOp' \in DetectCallOps) =>
            /\ lastOp' = "call_NotInitialized"
            /\ result_img' = NoImage
            /\ detector' = detector]_vars

\* C11 witness: detect was called, and rejected, on a detector whose
\* initialize had loaded a model and then failed.
C11_Witness ==
    /\ lastOp = "call_NotInitialized"
    /\ ~detector.initialized /\ detector.model # None
    /\ result_img = NoImage

\* C12: a detect call that follows a failed initialize is rejected with
\* NotInitialized, also when an earlier initialize had succeeded, and detect
\* never returns an image made with a model handle that a failed initialize
\* left partly updated (the model of one weights file with the class names
\* of another).
C12_FailedInitBlocksDetect ==
    /\ [][(lastOp = "init_fail" /\ lastOp' \in DetectCallOps) =>
            lastOp' = "call_NotInitialized"]_vars
    /\ [](result_img # NoImage => result_img.model = result_img.names)

\* A threshold, in hundredths, within [0, 1].
InRange(t) == 0 <= t /\ t <= 100

\* C13: initialize fails when the confidence or the IoU threshold of the
\* options is outside [0, 1]: the detector is initialized, and a detect call
\* gets past the initialized test, only with both thresholds in range.
C13_ThresholdsValidated ==
    (detector.initialized \/ lastOp \in {"call_ok", "call_error"}) =>
        (InRange(opt.conf_thres) /\ InRange(opt.iou_thres))

\* C14: detect never draws on the array it is given: the array the caller
\* passed carries no annotation at any time, and the boxes, labels and the
\* streaming FPS text are on the array detect returned.
C14_DetectKeepsInput ==
    /\ img.marks = {}
    /\ (pc = "emit" => result_img.marks = {"boxes", "fps"})
    /\ (lastOp = "detect_image_ok" => "boxes" \in result_img.marks)

\* C14 witness: a streamed frame went through detect and the overlay, and is
\* about to be written.
C14_Witness ==
    /\ pc = "emit" /\ frame > 0 /\ out # None
    /\ img.marks = {} /\ result_img.marks = {"boxes", "fps"}

DetectOps == DetectCallOps \cup {"detect_ok", "detect_fail", "detect_image_ok",
                                 "detect_image_error"}

\* C15: a detect call changes nothing of the detector: the model, the class
\* names, the inference size and the colours stay as initialize set them,
\* and what detect returns is drawn with those colours.
C15_DetectKeepsEngine ==
    [][lastOp' \in DetectOps =>
         /\ detector' = detector
         /\ (lastOp' \in {"detect_ok", "detect_image_ok", "call_ok"} =>
                /\ result_img'.colors = detector.colors
                /\ result_img'.names = detector.names
                /\ result_img'.model = detector.model)]_vars

\* C15 witness: the second frame of a session was drawn with the colours the
\* detector has had since initialize.
C15_Witness ==
    /\ lastOp = "detect_ok" /\ pulled >= 2
    /\ detector.initialized /\ result_img.colors = detector.colors

\* C16: at a tick with a second or more elapsed since the window start, fps
\* becomes framesSeen / elapsed and the counter and the window start are
\* reset; at any other tick fps and the window start stay and the counter
\* grows by one.  framesSeen is the number of frames seen in the window, the
\* frame of this tick included: in a video session whose counter equals the
\* frames pulled so far, that is the number of frames pulled after the tick.
C16_FpsWindow ==
    [][lastOp' \in {"tick_pull", "tick_eos"} =>
         /\ IF elapsed >= Second
              THEN fps'[2] = elapsed /\ frame_count' = 0 /\ elapsed' = 0
              ELSE /\ fps' = fps /\ elapsed' = elapsed
                   /\ frame_count' = frame_count + 1
         /\ (elapsed >= Second /\ cap.src = "video" /\ frame_count = pulled
               => fps'[1] = pulled')]_vars

\* C17: in streaming mode the array handed to detect is never higher than
\* wide: a frame pulled with height > width is handed over rotated by 90
\* degrees (height and width exchanged), any other frame as it was pulled.
C17_DetectGetsLandscape ==
    pc = "emit" =>
        /\ img.shape[1] <= img.shape[2]
        /\ img.shape = IF props.height > props.width
                         THEN <<props.width, props.height>>
                         ELSE <<props.height, props.width>>
        /\ result_img.shape = img.shape

\* C17 witness: a frame of a source higher than wide went through detect.
C17_Witness ==
    /\ pc = "emit" /\ props.height > props.width
    /\ img.shape = <<props.width, props.height>>

ImageOps == {"detect_image_uninit", "detect_image_cancel",
             "detect_image_error", "detect_image_ok"}

\* C18: single-image detection, whether it succeeds or fails, leaves the
\* session alone: it neither starts nor stops the tick, neither opens nor
\* releases the capture, neither creates, writes nor releases a recording
\* sink, and does not change the FPS accumulators; the handler has returned
\* when the step ends.
C18_ImageLeavesSession ==
    [][lastOp' \in ImageOps =>
         /\ UNCHANGED <<timer_video, cap, pulled, out, sinks, writer,
                        released, written, fps, elapsed, frame_count>>
         /\ UNCHANGED <<buttons, paused_since, displayed>>
         /\ pc' = "idle" /\ frame' = 0]_vars

\* C18 witness: an image was detected after a streaming session had left its
\* frame counter and its released sink behind.
C18_Witness ==
    /\ lastOp = "detect_image_ok" /\ display_label = "image"
    /\ frame_count > 0 /\ sinks \in released /\ IsIdle

SetupOps == ImageOps \cup {"init_ok", "init_fail"}

\* C19: while the session is Running or Paused the image and the initialize
\* buttons are disabled, from the successful open on, and every image
\* detection and every model initialization starts in an Idle session.
C19_SetupOnlyWhenIdle ==
    /\ []((IsRunning \/ IsPaused) => (~buttons.img /\ ~buttons.init))
    /\ [][lastOp' \in OpenOkOps => (~buttons'.img /\ ~buttons'.init)]_vars
    /\ [][lastOp' \in SetupOps => SessionState = "Idle"]_vars

\* C19 witness: a paused camera session, both buttons disabled.
C19_Witness ==
    /\ IsPaused /\ cap.opened /\ cap.src = "camera"
    /\ ~buttons.img /\ ~buttons.init

\* C20: the recording sink is created with the frame rate the source reports
\* when that is positive and with 20 frames per second otherwise, and with
\* the width and height the source reports.
C20_WriterArguments ==
    sinks > 0 =>
        /\ writer.fps = (IF props.fps > 0 THEN props.fps ELSE 20)
        /\ writer.width = props.width
        /\ writer.height = props.height

\* C20 witness: a sink was created for a source that reports no frame rate.
C20_Witness ==
    /\ out # None /\ props.fps = 0 /\ writer.fps = 20
    /\ writer.width = props.width /\ writer.height = props.height

\* C28: a sink is unbound only once it is released, and a new sink is
\* created, or the capture opened again, only while no sink is bound and the
\* capture is not open: no handler assigns over a bound, unreleased sink.
C28_SinkReleasedBeforeDropped ==
    [][/\ (out # None /\ out' # out => out \in released')
       /\ (sinks' > sinks => out = None)
       /\ (lastOp' \in OpenOkOps \cup OpenFailOps =>
              (out = None /\ ~cap.opened))]_vars

\* C29: the camera toggle pressed while a camera session is Running or
\* Paused stops that session (tick cancelled, capture and sink released,
\* session Idle); it starts a session only from Idle.
C29_CameraToggleStops ==
    [][lastOp' \in {"camera_ok", "camera_fail", "camera_stop", "camera_uninit"} =>
         /\ ((cap.src = "camera" /\ (IsRunning \/ IsPaused)) =>
                /\ IsIdle' /\ ~timer_video'
                /\ (out # None => out \in released'))
         /\ (lastOp' = "camera_ok" => IsIdle)]_vars

\* C30: whenever the tick is scheduled the capture is open, a sink is bound
\* and the detector is initialized; and the capture is open exactly when a
\* sink is bound.
C30_ResourcesTogether ==
    /\ (timer_video => (cap.opened /\ out # None /\ detector.initialized))
    /\ (cap.opened <=> out # None)

NmsOps == {"nms", "nms_iou", "nms_conf", "nms_again"}
\* The rows of pred that pass the confidence threshold and the class filter.
Passing ==
    {i \in DOMAIN pred :
        /\ confidence(pred[i]) >= opt.conf_thres
        /\ opt.classes = {} \/ best_class(pred[i]) \in opt.classes}
\* Row j is considered before row i: higher confidence, or equal and earlier.
Before(j, i) ==
    \/ confidence(pred[j]) > confidence(pred[i])
    \/ confidence(pred[j]) = confidence(pred[i]) /\ j < i
Returned(i) == \E k \in DOMAIN det : det[k] = candidate(pred[i])
SameClassOverlap(j, i) ==
    /\ best_class(pred[j]) = best_class(pred[i])
    /\ iou_above(xywh2xyxy(pred[j]), xywh2xyxy(pred[i]), opt.iou_thres)

\* C21: in per-class mode no two returned detections of one class overlap by
\* more than iou_thres; short of the cap, a passing row is returned exactly
\* when no row of its class considered before it and returned overlaps it by
\* more than iou_thres; and of two boxes of one class with IoU 0.9 and
\* confidences 0.9 and 0.6, only the 0.9 one is returned at iou_thres 0.45.
C21_GreedyPerClass ==
    (lastOp \in NmsOps /\ ~opt.agnostic_nms) =>
        /\ \A k, l \in DOMAIN det :
              (k # l /\ det[k].cls = det[l].cls) =>
                  ~iou_above(det[k].box, det[l].box, opt.iou_thres)
        /\ Len(det) < nms_max_det =>
              \A i \in DOMAIN pred :
                  Returned(i) <=>
                      /\ i \in Passing
                      /\ \A j \in Passing :
                            (Before(j, i) /\ Returned(j)) =>
                                ~SameClassOverlap(j, i)
        /\ ({pred[i] : i \in DOMAIN pred} = {Rows[1], Rows[5]}
              /\ Len(pred) = 2 /\ opt.iou_thres = DefaultIou) =>
              det = <<candidate(Rows[1])>>

C21_Witness ==
    /\ lastOp = "nms" /\ ~opt.agnostic_nms /\ opt.iou_thres = DefaultIou
    /\ pred = <<Rows[5], Rows[1]>>
    /\ det = <<candidate(Rows[1])>>

\* C22 as stated: with the confidence threshold, the class filter and the mode
\* fixed, a pass at a higher iou_thres over the same rows never returns fewer
\* detections.
C22_IouMonotone ==
    [][lastOp' = "nms_iou" => Len(det') >= Len(det)]_vars

\* The passing rows that can suppress one another: those of one class, or all
\* of them in class-agnostic mode.
Group(c) ==
    {i \in Passing : opt.agnostic_nms \/ best_class(pred[i]) = c}

\* C22, amended: a pass at a higher iou_thres over the same rows never returns
\* fewer detections as long as no more than three passing rows compete with
\* one another.
C22_IouMonotoneSmallGroups ==
    [][(/\ lastOp' = "nms_iou"
        /\ \A c \in 1..2 : Cardinality(Group(c)) <= 3) =>
           Len(det') >= Len(det)]_vars

C22_Witness ==
    /\ lastOp = "nms_iou" /\ opt.iou_thres = 75
    /\ pred = <<Rows[1], Rows[2], Rows[3]>>
    /\ Len(det) = 2

\* C23: with the IoU threshold, the class filter and the mode fixed, a pass at
\* a higher conf_thres over the same rows never returns more detections, and
\* returns none whose confidence is below the threshold.
C23_ConfMonotone ==
    [][lastOp' = "nms_conf" =>
          /\ Len(det') <= Len(det)
          /\ \A k \in DOMAIN det' : det'[k].conf >= opt'.conf_thres]_vars

C23_Witness ==
    /\ lastOp = "nms_conf" /\ opt.conf_thres = 65 /\ opt.iou_thres = 75
    /\ pred = <<Rows[1], Rows[4]>>
    /\ det = <<candidate(Rows[1])>>

C25_MaxDetApplied ==
    lastOp \in NmsOps =>
        LET kept == nms_kept(pred, opt.conf_thres, opt.iou_thres, opt.classes,
                             opt.agnostic_nms)
        IN  det = SubSeq(kept, 1, Min(Len(kept), opt.max_det))

\* C26: the box of every detection detect returns lies in the frame, x1 <= x2
\* and y1 <= y2, every x from 0 to below the frame's width and every y from 0
\* to below its height, also when the box of the model reaches beyond the
\* padded tensor.
C26_BoxInFrame ==
    lastOp = "rescale" =>
        /\ xyxy.box[1] <= xyxy.box[3]
        /\ xyxy.box[2] <= xyxy.box[4]
        /\ \A i \in {1, 3} : 0 <= xyxy.box[i] /\ xyxy.box[i] < prep.frame[2]
        /\ \A i \in {2, 4} : 0 <= xyxy.box[i] /\ xyxy.box[i] < prep.frame[1]

\* C27: each side of the padded tensor is the smallest multiple of the loaded
\* model's stride that is no less than the side of the scaled frame, and the
\* frame is never scaled up.
C27_PaddedToModelStride ==
    lastOp \in {"preprocess", "rescale"} =>
        LET scaled == scaled_shape(prep.frame, prep.imgsz)
        IN  \A i \in 1..2 :
              /\ prep.tensor[i] % prep.stride = 0
              /\ prep.tensor[i] >= scaled[i]
              /\ prep.tensor[i] - prep.stride < scaled[i]
              /\ scaled[i] <= prep.frame[i]

====
